---- MODULE Spec2Model ----
(***************************************************************************)
(* A model of the MCP bridge programs of mem0-mcp-clean:                   *)
(*   network_mcp_proxy.py  - MCP over HTTP, one session per user_id        *)
(*   remote_mcp_proxy.py   - MCP over stdio, one session per process       *)
(*   main_fixed.py         - the SSE server resolving a user per connection*)
(*   main_stdio.py         - the stdio server calling the memory store     *)
(* Each behaviour of Spec is a run of ONE of these programs (program is    *)
(* chosen in Init and never changes).  A coroutine handles one inbound     *)
(* request, or one SSE connection.  Coroutines interleave only at an await *)
(* on the network, so every action runs from one await to the next.  A     *)
(* coroutine's locals exist while it runs; when it returns, its request    *)
(* and its response are kept in out until the next coroutine returns.      *)
(***************************************************************************)
EXTENDS Integers, Sequences, FiniteSets, TLC

VARIABLES
    program,     \* which of the programs this run is
    cfgUser,     \* remote_mcp_proxy: self.user_id (--user-id)
    sessions,    \* network_mcp_proxy: self.sessions, user_id -> session
    session_id,  \* remote_mcp_proxy: self.session_id
    gets,        \* the handshakes sent so far, per X-User-ID
    pc,          \* where each coroutine stands
    req,         \* the request each running coroutine handles
    task,        \* each running coroutine's locals and what it sent
    out,         \* the latest response returned, with its request
    conn,        \* main_fixed: each connection's candidates and current_user_id
    dispatch,    \* main_stdio: how Server.run runs a request's handler
    current_user_id, \* main_stdio: the ContextVar as the next handler finds it
    served       \* main_stdio, main_fixed: the latest tool call handled

vars == <<program, cfgUser, sessions, session_id, gets, pc, req, task, out, conn,
          dispatch, current_user_id, served>>

(* ------------------------------ bounds --------------------------------- *)

\* Number of inbound requests (coroutines) one run handles.
MaxCalls == 2

Calls == 1..MaxCalls

(* ------------------------------ values --------------------------------- *)

\* Python's None where a string is expected.
NoValue == "<none>"

\* The well-known default identity.
Sentinel == "admin_default"

\* The identities of the proxies' runs.
Identities == {Sentinel, "alice", "bob"}

\* A value that is false in a Python boolean context: None or "".
Falsy(s) == s = NoValue \/ s = ""

\* Identifiers: the id a client put in its request, a uuid.uuid4() drawn at
\* a given source line by a given coroutine (every draw is fresh), a
\* session token issued by the remote host to the handshake of a given
\* coroutine, or None.  owner is the X-User-ID of the handshake a token
\* comes from.
ReqId(c) == [kind |-> "req", call |-> c, site |-> "client", owner |-> NoValue]

Uuid(c, site, owner) == [kind |-> "uuid", call |-> c, site |-> site, owner |-> owner]

RemoteToken(c, owner) == [kind |-> "remote", call |-> c, site |-> "sse", owner |-> owner]

NoId == [kind |-> "none", call |-> 0, site |-> "none", owner |-> NoValue]

\* What GET <remote>/sse can do: 200 with a "data: /messages/?session_id=T"
\* line, 200 with that line and an empty T, 200 without such a line, a
\* status other than 200, or an exception of the HTTP client (a timeout
\* included).
HandshakeOutcomes == {"token", "emptytoken", "notoken", "non200", "exception"}

\* What POST <remote>/messages/ can do: 200 with a JSON result envelope, 200
\* with a JSON error envelope, 200 with a body that is not JSON, a status
\* other than 200, or an exception of the HTTP client.
ForwardOutcomes == {"ok_result", "ok_error", "garbage", "non200", "exception"}

NoPost == [user |-> NoValue, argUser |-> NoValue, token |-> NoId, msgId |-> NoId]

NoResp == [kind |-> "none", id |-> NoId, code |-> 0, status |-> 0, text |-> "none"]

\* A request: required tells whether the arguments of a tools/call hold the
\* argument its tool requires ("given") or lack it ("absent").
NoReq == [body |-> "none", id |-> NoId, method |-> NoValue, params |-> "none",
          argUser |-> NoValue, header |-> NoValue, required |-> "given"]

\* A coroutine's locals: the identity whose session it uses, the outcome of
\* its handshake if it made one, the POSTs it sent and the latest of them.
NoTask == [user |-> NoValue, hs |-> "none", posts |-> 0, post |-> NoPost]

NoOut == [call |-> 0, req |-> NoReq, user |-> NoValue, hs |-> "none",
          fwd |-> "none", posts |-> 0, post |-> NoPost, resp |-> NoResp]

\* The response resp returned by coroutine c, which never reached the
\* remote host.
LocalOut(c, r, resp) == [NoOut EXCEPT !.call = c, !.req = r, !.resp = resp]

\* The response resp returned by coroutine c after its POST ended with o.
ForwardedOut(c, r, t, o, resp) ==
    [call |-> c, req |-> r, user |-> t.user, hs |-> t.hs, fwd |-> o,
     posts |-> t.posts, post |-> t.post, resp |-> resp]

(* ------------------- network_mcp_proxy.py: requests -------------------- *)

\* The pairs <<user_id argument, X-User-ID header>> of a tools/call.
NetIdentityInputs ==
    {<<NoValue, NoValue>>, <<NoValue, "alice">>, <<"", "alice">>, <<"bob", "alice">>}

\* The bodies POSTed to /mcp: bytes that are not JSON, JSON that is not an
\* object, the static methods, an unknown and a missing method, a
\* tools/call whose params is null, tools/call with or without an
\* X-User-ID header and with a user_id argument that is absent, empty or
\* set, and a tools/call without the argument its tool requires.
NetRequests(c) ==
    {[NoReq EXCEPT !.body = b] : b \in {"garbage", "notobject"}}
    \cup {[NoReq EXCEPT !.body = "object", !.id = ReqId(c), !.method = m,
                        !.params = "ok"] :
            m \in {"initialize", "tools/list", "resources/list", NoValue}}
    \cup {[NoReq EXCEPT !.body = "object", !.id = ReqId(c),
                        !.method = "tools/call", !.params = "null"]}
    \cup {[NoReq EXCEPT !.body = "object", !.id = ReqId(c),
                        !.method = "tools/call", !.params = "ok",
                        !.argUser = i[1], !.header = i[2]] :
            i \in NetIdentityInputs}
    \cup {[NoReq EXCEPT !.body = "object", !.id = ReqId(c),
                        !.method = "tools/call", !.params = "ok",
                        !.required = "absent"]}

\* The error codes of the envelopes the proxy builds.
TransportError == -32000

MethodNotFound == -32601

\* An error envelope as the handlers build it.
ErrorEnvelope(id, code, status, text) ==
    [kind |-> "error", id |-> id, code |-> code, status |-> status,
     text |-> text]

ResultEnvelope(id) ==
    [kind |-> "result", id |-> id, code |-> 0, status |-> 200, text |-> "result"]

\* A variant of NetResolveUser that lets the X-User-ID header win over the
\* user_id argument.
ResolveHeaderFirst(argUser, header) ==
    IF header # NoValue THEN header
    ELSE IF ~Falsy(argUser) THEN argUser
    ELSE Sentinel

\* handle_call_tool: the user_id of the call.
NetResolveUser(argUser, header) ==
    IF ~Falsy(argUser) THEN argUser
    ELSE IF header # NoValue THEN header
    ELSE Sentinel

\* A variant of SessionKey that keeps one session for all users.
SessionKeyShared(user_id) == Sentinel

\* get_user_session: the key of a user's entry in self.sessions.
SessionKey(user_id) == user_id

\* A variant of SessionMissing that never finds the stored session.
SessionAlwaysMissing(tab, user_id) == TRUE

\* A variant of SessionMissing that takes a session that is not established
\* for a missing one.
SessionMissingUnlessEstablished(tab, user_id) ==
    \/ SessionKey(user_id) \notin DOMAIN tab
    \/ ~tab[SessionKey(user_id)].established

\* get_user_session: "if user_id not in self.sessions".
SessionMissing(tab, user_id) == SessionKey(user_id) \notin DOMAIN tab

\* get_user_session: "return self.sessions[user_id]".
GetSession(tab, user_id) == tab[SessionKey(user_id)]

\* get_user_session: the session stored after the handshake of coroutine c
\* for user_id ended with outcome o.
StoredSession(o, c, user_id) ==
    IF o = "exception"
    THEN [session_id |-> Uuid(c, "L54", user_id), established |-> FALSE]
    ELSE IF o = "token"
    THEN [session_id |-> RemoteToken(c, user_id), established |-> TRUE]
    ELSE [session_id |-> Uuid(c, "L43", user_id), established |-> TRUE]

\* self.sessions[user_id] = s
PutSession(tab, user_id, s) ==
    [u \in DOMAIN tab \cup {SessionKey(user_id)} |->
        IF u = SessionKey(user_id) THEN s ELSE tab[u]]

\* A variant of NetPost whose header carries the default identity instead
\* of the user_id of the call.
NetPostDefaultHeader(c, user_id, session) ==
    [user |-> Sentinel, argUser |-> user_id, token |-> session.session_id,
     msgId |-> Uuid(c, "L68", NoValue)]

\* call_remote_tool: the request sent to <remote>/messages/.
NetPost(c, user_id, session) ==
    [user |-> user_id, argUser |-> user_id, token |-> session.session_id,
     msgId |-> Uuid(c, "L68", NoValue)]

\* The error envelope a remote host that follows JSON-RPC writes in answer
\* to the message msgId: the id of the message and a code of its own (here
\* -32603).
RemoteErrorEnvelope(msgId) == ErrorEnvelope(msgId, -32603, 200, "remote")

\* A response standing for an exception that leaves the handler uncaught.
Raised == [NoResp EXCEPT !.kind = "raised"]

\* A variant of NetCallResult without the try/except around response.json()
\* and the POST.
NetCallResultUncaught(o, c, msgId) ==
    CASE o = "ok_result" -> ResultEnvelope(msgId)
      [] o = "ok_error" -> RemoteErrorEnvelope(msgId)
      [] o = "non200" -> ErrorEnvelope(msgId, TransportError, 200, "HTTP error")
      [] OTHER -> Raised

\* A variant of NetCallResult that answers an error envelope of the remote
\* host with an error envelope of the proxy's own.
NetCallResultRewriting(o, c, msgId) ==
    CASE o = "ok_result" -> ResultEnvelope(msgId)
      [] o = "non200" -> ErrorEnvelope(msgId, TransportError, 200, "HTTP error")
      [] OTHER -> ErrorEnvelope(Uuid(c, "L101", NoValue), TransportError, 200,
                                "Request failed")

\* call_remote_tool: what it returns once the POST ended with outcome o.
\* A JSON body is returned as the remote host wrote it; a host that follows
\* JSON-RPC answers with the id of the message it was sent (and, in an
\* error envelope, with a code of its own, here -32603).
NetCallResult(o, c, msgId) ==
    CASE o = "ok_result" -> ResultEnvelope(msgId)
      [] o = "ok_error" -> RemoteErrorEnvelope(msgId)
      [] o = "non200" -> ErrorEnvelope(msgId, TransportError, 200, "HTTP error")
      [] OTHER -> ErrorEnvelope(Uuid(c, "L101", NoValue), TransportError, 200,
                                "Request failed")

(* ------------------- network_mcp_proxy.py: handlers -------------------- *)

\* The coroutine c returns resp for its request r without having reached
\* the remote host.
ReturnLocal(c, r, resp) ==
    /\ out' = LocalOut(c, r, resp)
    /\ pc' = [pc EXCEPT ![c] = "done"]
    /\ UNCHANGED <<req, task, gets>>

\* A variant of NetCallTool that forwards the call at once, with no token,
\* when the table holds no session for its identity.
NetCallToolForwardFirst(c, r) ==
    IF r.params = "null"
    THEN ReturnLocal(c, r, ErrorEnvelope(r.id, TransportError, 500, "exception"))
    ELSE LET user_id == NetResolveUser(r.argUser, r.header) IN
         /\ req' = [req EXCEPT ![c] = r]
         /\ out' = out
         /\ gets' = gets
         /\ pc' = [pc EXCEPT ![c] = "post"]
         /\ task' = [task EXCEPT ![c].user = user_id, ![c].posts = @ + 1,
                ![c].post = NetPost(c, user_id,
                    IF SessionMissing(sessions, user_id)
                    THEN [session_id |-> NoId, established |-> FALSE]
                    ELSE GetSession(sessions, user_id))]

\* handle_call_tool up to the first await of call_remote_tool: the session
\* is read from the table and the call forwarded, or the handshake is sent.
NetCallTool(c, r) ==
    IF r.params = "null"
    THEN ReturnLocal(c, r, ErrorEnvelope(r.id, TransportError, 500, "exception"))
    ELSE LET user_id == NetResolveUser(r.argUser, r.header) IN
         /\ req' = [req EXCEPT ![c] = r]
         /\ out' = out
         /\ IF SessionMissing(sessions, user_id)
            THEN /\ task' = [task EXCEPT ![c].user = user_id]
                 /\ gets' = [gets EXCEPT ![user_id] = @ + 1]
                 /\ pc' = [pc EXCEPT ![c] = "handshake"]
            ELSE /\ task' = [task EXCEPT ![c].user = user_id, ![c].posts = @ + 1,
                      ![c].post = NetPost(c, user_id, GetSession(sessions, user_id))]
                 /\ gets' = gets
                 /\ pc' = [pc EXCEPT ![c] = "post"]

\* A variant of DecodeFailure in which the exception leaves the handler.
DecodeFailureRaised == Raised

\* handle_mcp_request: the answer to a body for which request.json() or
\* data.get raises.
DecodeFailure == ErrorEnvelope(NoId, TransportError, 500, "exception")

\* A variant of UnknownMethod that answers with the code of a transport
\* failure.
UnknownMethodAsTransport(r) ==
    ErrorEnvelope(r.id, TransportError, 500, "Method not found")

\* handle_mcp_request: the answer to a method that is none of initialize,
\* tools/list and tools/call.
UnknownMethod(r) == ErrorEnvelope(r.id, MethodNotFound, 404, "Method not found")

\* A variant of NetReceive that routes tools/list through handle_call_tool.
NetReceiveListForwarded(c) ==
    /\ program = "network"
    /\ pc[c] = "idle"
    /\ \E r \in NetRequests(c) :
         IF r.body # "object"
         THEN ReturnLocal(c, r, DecodeFailure)
         ELSE IF r.method = "initialize"
         THEN ReturnLocal(c, r, ResultEnvelope(r.id))
         ELSE IF r.method \in {"tools/list", "tools/call"}
         THEN NetCallTool(c, r)
         ELSE ReturnLocal(c, r, UnknownMethod(r))
    /\ UNCHANGED <<program, cfgUser, dispatch, current_user_id, served, sessions,
                   session_id, conn>>

\* A variant of NetReceive with a lock on the session table that a
\* coroutine holds while it waits for its handshake.
NetReceiveUnderLock(c) ==
    /\ program = "network"
    /\ pc[c] = "idle"
    /\ \A d \in Calls : pc[d] # "handshake"
    /\ \E r \in NetRequests(c) :
         IF r.body # "object"
         THEN ReturnLocal(c, r, DecodeFailure)
         ELSE IF r.method \in {"initialize", "tools/list"}
         THEN ReturnLocal(c, r, ResultEnvelope(r.id))
         ELSE IF r.method = "tools/call"
         THEN NetCallTool(c, r)
         ELSE ReturnLocal(c, r, UnknownMethod(r))
    /\ UNCHANGED <<program, cfgUser, dispatch, current_user_id, served, sessions,
                   session_id, conn>>

\* handle_mcp_request: one request arrives at POST /mcp.
NetReceive(c) ==
    /\ program = "network"
    /\ pc[c] = "idle"
    /\ \E r \in NetRequests(c) :
         IF r.body # "object"
         THEN ReturnLocal(c, r, DecodeFailure)
         ELSE IF r.method \in {"initialize", "tools/list"}
         THEN ReturnLocal(c, r, ResultEnvelope(r.id))
         ELSE IF r.method = "tools/call"
         THEN NetCallTool(c, r)
         ELSE ReturnLocal(c, r, UnknownMethod(r))
    /\ UNCHANGED <<program, cfgUser, dispatch, current_user_id, served, sessions, session_id, conn>>

\* A variant of NetHandshakeReturn that answers with an error, without
\* forwarding, when the handshake did not yield a token.
NetHandshakeReturnRejecting(c) ==
    /\ program = "network"
    /\ pc[c] = "handshake"
    /\ \E o \in HandshakeOutcomes \ {"emptytoken"} :
         LET user_id == task[c].user
             tab == PutSession(sessions, user_id, StoredSession(o, c, user_id))
         IN /\ sessions' = tab
            /\ IF o = "token"
               THEN /\ task' = [task EXCEPT ![c].hs = o, ![c].posts = @ + 1,
                          ![c].post = NetPost(c, user_id, GetSession(tab, user_id))]
                    /\ pc' = [pc EXCEPT ![c] = "post"]
                    /\ UNCHANGED <<req, out>>
               ELSE /\ out' = ForwardedOut(c, req[c], [task[c] EXCEPT !.hs = o], "none",
                                 ErrorEnvelope(Uuid(c, "L101", NoValue), TransportError,
                                               200, "Request failed"))
                    /\ task' = [task EXCEPT ![c] = NoTask]
                    /\ req' = [req EXCEPT ![c] = NoReq]
                    /\ pc' = [pc EXCEPT ![c] = "done"]
    /\ UNCHANGED <<program, cfgUser, dispatch, current_user_id, served, session_id, gets, conn>>

\* A variant of NetHandshakeReturn for a client without a timeout, whose GET
\* may stay without an answer for ever.
NetHandshakeReturnNoTimeout(c) ==
    /\ program = "network"
    /\ pc[c] = "handshake"
    /\ FALSE
    /\ UNCHANGED vars

\* get_user_session after its await: the handshake answer arrives, the
\* session is stored, read back and the call is forwarded.  (An answer with
\* an empty token does what an answer without a token line does.)
NetHandshakeReturn(c) ==
    /\ program = "network"
    /\ pc[c] = "handshake"
    /\ \E o \in HandshakeOutcomes \ {"emptytoken"} :
         LET user_id == task[c].user
             tab == PutSession(sessions, user_id, StoredSession(o, c, user_id))
         IN /\ sessions' = tab
            /\ task' = [task EXCEPT ![c].hs = o, ![c].posts = @ + 1,
                   ![c].post = NetPost(c, user_id, GetSession(tab, user_id))]
    /\ pc' = [pc EXCEPT ![c] = "post"]
    /\ UNCHANGED <<program, cfgUser, dispatch, current_user_id, served, session_id, gets, req, out, conn>>

\* A variant of NetPostReturn that sends the request once more after a
\* failure of the transport.
NetPostReturnRetrying(c) ==
    /\ program = "network"
    /\ pc[c] = "post"
    /\ \E o \in ForwardOutcomes :
         IF o \in {"non200", "exception"} /\ task[c].posts < 2
         THEN /\ task' = [task EXCEPT ![c].posts = @ + 1]
              /\ UNCHANGED <<req, out, pc>>
         ELSE /\ out' = ForwardedOut(c, req[c], task[c], o,
                                     NetCallResult(o, c, task[c].post.msgId))
              /\ task' = [task EXCEPT ![c] = NoTask]
              /\ req' = [req EXCEPT ![c] = NoReq]
              /\ pc' = [pc EXCEPT ![c] = "done"]
    /\ UNCHANGED <<program, cfgUser, dispatch, current_user_id, served, sessions,
                   session_id, gets, conn>>

\* call_remote_tool after its await, and the return of handle_call_tool.
NetPostReturn(c) ==
    /\ program = "network"
    /\ pc[c] = "post"
    /\ \E o \in ForwardOutcomes :
         out' = ForwardedOut(c, req[c], task[c], o,
                             NetCallResult(o, c, task[c].post.msgId))
    /\ task' = [task EXCEPT ![c] = NoTask]
    /\ req' = [req EXCEPT ![c] = NoReq]
    /\ pc' = [pc EXCEPT ![c] = "done"]
    /\ UNCHANGED <<program, cfgUser, dispatch, current_user_id, served, sessions, session_id, gets, conn>>

(* ------------------------- remote_mcp_proxy.py ------------------------- *)

\* How Server.run of the mcp package (which is not part of this repository)
\* runs the handler of a request: awaited in the task of the server loop,
\* whose context the handler then shares and which reads no request
\* meanwhile, or in a task of its own, which gets a copy of that context
\* and runs beside the handlers of other requests.
Dispatches == {"inline", "task"}

\* The user_id argument of a tool call on stdin: absent (arguments None or
\* without the key), empty, or set.
StdioArgUsers == {NoValue, "", "bob"}

\* handle_call_tool: arguments["user_id"] after the default is applied.
StdioArgUser(argUser, selfUser) ==
    IF argUser = NoValue THEN selfUser ELSE argUser

\* handle_call_tool: "if not self.session_id".
NoSessionYet(sid) == sid = NoId

\* A variant of Established without the "if not self.session_id" fallback
\* after the scan of the lines.
EstablishedWithoutFallback(sid, o, c, selfUser) ==
    CASE o = "token" -> RemoteToken(c, selfUser)
      [] o = "emptytoken" -> NoId
      [] o = "notoken" -> sid
      [] OTHER -> Uuid(c, "L141", selfUser)

\* establish_session: self.session_id when it returns, given its value sid
\* when the answer of the handshake of coroutine c arrived with outcome o.
Established(sid, o, c, selfUser) ==
    CASE o = "token" -> RemoteToken(c, selfUser)
      [] o = "emptytoken" -> Uuid(c, "L134", selfUser)
      [] o = "notoken" -> IF sid = NoId THEN Uuid(c, "L134", selfUser) ELSE sid
      [] OTHER -> Uuid(c, "L141", selfUser)

\* call_remote_tool: the request sent to <remote>/messages/.
StdioPost(c, argUser, sid) ==
    [user |-> argUser, argUser |-> argUser, token |-> sid,
     msgId |-> Uuid(c, "L149", NoValue)]

\* call_remote_tool and handle_call_tool: the text content returned once
\* the POST ended with outcome o.
StdioCallResult(o) ==
    [NoResp EXCEPT !.kind = "text",
                   !.text = CASE o = "ok_result" -> "content"
                              [] o = "ok_error" -> "Remote error"
                              [] o = "non200" -> "HTTP error"
                              [] OTHER -> "Request failed"]

\* Server.run reads the next request from stdin: the requests are numbered
\* in the order of their arrival, and when the mcp package awaits a handler
\* in the server loop ("inline") the next request is read only once the
\* handler has returned.
StdioArrives(c) ==
    /\ \A d \in Calls : d < c => pc[d] # "idle"
    /\ dispatch = "inline" => \A d \in Calls : pc[d] \in {"idle", "done"}

\* handle_call_tool up to its first await: a tool call arrives on stdin.
StdioReceive(c) ==
    /\ program = "stdio"
    /\ pc[c] = "idle"
    /\ StdioArrives(c)
    /\ \E a \in StdioArgUsers :
         LET user_id == StdioArgUser(a, cfgUser) IN
         /\ req' = [req EXCEPT ![c] = [NoReq EXCEPT !.body = "object",
                        !.id = ReqId(c), !.method = "tools/call",
                        !.params = "ok", !.argUser = a]]
         /\ IF NoSessionYet(session_id)
            THEN /\ task' = [task EXCEPT ![c].user = cfgUser]
                 /\ gets' = [gets EXCEPT ![cfgUser] = @ + 1]
                 /\ pc' = [pc EXCEPT ![c] = "handshake"]
            ELSE /\ task' = [task EXCEPT ![c].user = cfgUser, ![c].posts = @ + 1,
                                ![c].post = StdioPost(c, user_id, session_id)]
                 /\ gets' = gets
                 /\ pc' = [pc EXCEPT ![c] = "post"]
    /\ UNCHANGED <<program, cfgUser, dispatch, current_user_id, served, sessions, session_id, out, conn>>

\* establish_session after its await, then call_remote_tool up to its await.
StdioHandshakeReturn(c) ==
    /\ program = "stdio"
    /\ pc[c] = "handshake"
    /\ \E o \in HandshakeOutcomes :
         LET sid == Established(session_id, o, c, cfgUser) IN
         /\ session_id' = sid
         /\ task' = [task EXCEPT ![c].hs = o, ![c].posts = @ + 1,
                ![c].post = StdioPost(c, StdioArgUser(req[c].argUser, cfgUser), sid)]
    /\ pc' = [pc EXCEPT ![c] = "post"]
    /\ UNCHANGED <<program, cfgUser, dispatch, current_user_id, served, sessions, gets, req, out, conn>>

\* call_remote_tool after its await, and the return of handle_call_tool.
StdioPostReturn(c) ==
    /\ program = "stdio"
    /\ pc[c] = "post"
    /\ \E o \in ForwardOutcomes :
         out' = ForwardedOut(c, req[c], task[c], o, StdioCallResult(o))
    /\ task' = [task EXCEPT ![c] = NoTask]
    /\ req' = [req EXCEPT ![c] = NoReq]
    /\ pc' = [pc EXCEPT ![c] = "done"]
    /\ UNCHANGED <<program, cfgUser, dispatch, current_user_id, served, sessions, session_id, gets, conn>>

(* ----------------------------- main_fixed.py --------------------------- *)

\* Strings are sequences of one-character strings here, where the
\* characters decide.
\* request.query_params.get / path_params.get / the header loop finding
\* nothing: None.
Absent == <<"<none>">>

\* The length bound of the identity pattern.
MaxIdLen == 64

\* The character class [a-zA-Z0-9_-].
IdChars ==
    {"a","b","c","d","e","f","g","h","i","j","k","l","m","n","o","p","q","r",
     "s","t","u","v","w","x","y","z","A","B","C","D","E","F","G","H","I","J",
     "K","L","M","N","O","P","Q","R","S","T","U","V","W","X","Y","Z","0","1",
     "2","3","4","5","6","7","8","9","_","-"}

\* What str.strip() removes.
Whitespace == {" ", "\t", "\n"}

\* re.match(r'^[a-zA-Z0-9_-]{1,64}$', s) on a string without a newline.
MatchesIdPattern(s) ==
    /\ s # Absent
    /\ Len(s) >= 1
    /\ Len(s) <= MaxIdLen
    /\ \A i \in 1..Len(s) : s[i] \in IdChars

RECURSIVE LStrip(_)
LStrip(s) == IF s # <<>> /\ Head(s) \in Whitespace THEN LStrip(Tail(s)) ELSE s

RECURSIVE RStrip(_)
RStrip(s) ==
    IF s # <<>> /\ s[Len(s)] \in Whitespace
    THEN RStrip(SubSeq(s, 1, Len(s) - 1))
    ELSE s

\* str.strip()
Strip(s) == RStrip(LStrip(s))

RECURSIVE Rep(_, _)
Rep(ch, n) == IF n = 0 THEN <<>> ELSE <<ch>> \o Rep(ch, n - 1)

\* The ContextVar's default, "admin_default".
SentinelId == <<"a","d","m","i","n","_","d","e","f","a","u","l","t">>

\* The X-User-ID header of a connection: absent, an identity, an identity
\* with blanks around it, two words, empty, and one character too long.
HeaderCandidates ==
    {Absent, <<"a","l">>, <<" ","a","l"," ">>, <<"a"," ","l">>, <<>>,
     Rep("a", MaxIdLen + 1)}

\* The user_id query parameter: absent, empty, an identity, not an identity.
QueryCandidates == {Absent, <<>>, <<"b","o">>, <<"b","!">>}

\* The user_id path parameter (/user/{user_id}): absent, an identity, not
\* an identity.
PathCandidates == {Absent, <<"c","y">>, <<"c","?">>}

\* A variant of get_user_id_from_headers that returns None for a header
\* that does not match the pattern.
HeaderMalformedAsAbsent(h) ==
    IF h # Absent /\ MatchesIdPattern(Strip(h))
    THEN [raised |-> FALSE, value |-> Strip(h)]
    ELSE [raised |-> FALSE, value |-> Absent]

\* get_user_id_from_headers: [raised |-> TRUE] for the ValueError, else the
\* value returned (Absent for None).
get_user_id_from_headers(h) ==
    IF h = Absent THEN [raised |-> FALSE, value |-> Absent]
    ELSE IF MatchesIdPattern(Strip(h))
    THEN [raised |-> FALSE, value |-> Strip(h)]
    ELSE [raised |-> TRUE, value |-> Absent]

\* "if not user_id" on a candidate: None or the empty string.
NotUserId(s) == s = Absent \/ s = <<>>

\* A variant of ResolveSseUser that tries the query parameter before the
\* header.
ResolveSseUserQueryFirst(h, q, p) ==
    LET fromHeader == get_user_id_from_headers(h)
        afterHeader == IF NotUserId(q) THEN fromHeader.value ELSE q
        afterPath == IF NotUserId(afterHeader) THEN p ELSE afterHeader
    IN IF fromHeader.raised THEN Absent ELSE afterPath

\* handle_sse: the user_id it ends with (Absent for None) for the header h,
\* the query parameter q and the path parameter p.
ResolveSseUser(h, q, p) ==
    LET fromHeader == get_user_id_from_headers(h)
        afterQuery == IF NotUserId(fromHeader.value) THEN q ELSE fromHeader.value
        afterPath == IF NotUserId(afterQuery) THEN p ELSE afterQuery
    IN IF fromHeader.raised THEN Absent ELSE afterPath

\* handle_sse: current_user_id in the connection's context once the user is
\* extracted: set when a user_id was found, else left at its default.
ContextUser(user_id) == IF NotUserId(user_id) THEN SentinelId ELSE user_id

NoConn == [header |-> Absent, query |-> Absent, path |-> Absent, user |-> Absent]

\* handle_sse up to connect_sse: a client opens GET /sse (or /user/{id}).
SseOpen(c) ==
    /\ program = "sse"
    /\ pc[c] = "idle"
    /\ \E h \in HeaderCandidates, q \in QueryCandidates, p \in PathCandidates :
         conn' = [conn EXCEPT ![c] = [header |-> h, query |-> q, path |-> p,
                                      user |-> ContextUser(ResolveSseUser(h, q, p))]]
    /\ pc' = [pc EXCEPT ![c] = "open"]
    /\ UNCHANGED <<program, cfgUser, dispatch, current_user_id, served, sessions, session_id, gets, req, task, out>>

(* ----------------------------- main_stdio.py --------------------------- *)

\* What the request to the memory store does: it succeeds, or it raises
\* (raise_for_status, a connection error, an error of the cloud client).
StoreOutcomes == {"ok", "error"}

NoServed ==
    [call |-> 0, name |-> NoValue, required |-> "absent", argUser |-> Absent,
     user |-> Absent, stores |-> 0, storeUser |-> Absent, text |-> "none"]

\* The tools of handle_list_tools, and a name that is none of them.
ToolNames ==
    {"add_coding_preference", "get_all_coding_preferences",
     "search_coding_preferences", "no_such_tool"}

\* The argument handle_call_tool requires of a tool (None: no argument).
RequiredArgument(name) ==
    CASE name = "add_coding_preference" -> "text"
      [] name = "search_coding_preferences" -> "query"
      [] OTHER -> NoValue

\* The required argument in the arguments of a call: not there, the empty
\* string, or a text.
ArgumentValues == {"absent", "empty", "given"}

\* The user_id argument of a call: absent, empty, an identity, not an
\* identity.
ServerArgUsers == {Absent, <<>>, <<"b","o">>, <<"b","!">>}

\* set_user_id_context: the ContextVar once it returns.
set_user_id_context(ctx, user_id) ==
    IF ~NotUserId(user_id) /\ MatchesIdPattern(user_id) THEN user_id ELSE ctx

\* handle_call_tool: current_user, for the ContextVar ctx as the handler
\* finds it and the user_id argument of the call.
CurrentUser(ctx, argUser) ==
    IF NotUserId(argUser) THEN ctx ELSE set_user_id_context(ctx, argUser)

\* A variant of MissingRequired that lets every call through.
MissingRequiredNever(name, value) == FALSE

\* handle_call_tool: "if not text" / "if not query".
MissingRequired(name, value) ==
    RequiredArgument(name) # NoValue /\ value \in {"absent", "empty"}

\* handle_call_tool: one tool call arrives on stdin.  The handler has no
\* await (the store is called with the blocking httpx functions), so it
\* runs from start to end as one step.
ServerCallTool(c) ==
    /\ program = "main_stdio"
    /\ pc[c] = "idle"
    /\ \E name \in ToolNames, a \in ServerArgUsers, v \in ArgumentValues,
          o \in StoreOutcomes :
         LET current_user == CurrentUser(current_user_id, a)
             call == [NoServed EXCEPT !.call = c, !.name = name, !.required = v,
                                      !.argUser = a, !.user = current_user]
         IN /\ served' =
                  IF name = "no_such_tool"
                  THEN [call EXCEPT !.text = "Unknown tool"]
                  ELSE IF MissingRequired(name, v)
                  THEN [call EXCEPT !.text = "parameter is required"]
                  ELSE [call EXCEPT !.stores = 1, !.storeUser = current_user,
                                    !.text = IF o = "ok" THEN "result"
                                             ELSE "Error in"]
            /\ current_user_id' =
                  IF dispatch = "inline" THEN current_user ELSE current_user_id
    /\ pc' = [pc EXCEPT ![c] = "done"]
    /\ UNCHANGED <<program, cfgUser, dispatch, sessions, session_id, gets, req,
                   task, out, conn>>

(* ------------------------ main_fixed.py: the tools --------------------- *)

\* The tools of the SSE server.
SseTools ==
    {"add_coding_preference", "get_all_coding_preferences",
     "search_coding_preferences"}

\* A variant of ToolContext in which the connections share one context:
\* that of some open connection.
ToolContextShared(c) == conn[CHOOSE d \in Calls : pc[d] = "open"].user

\* The tools' "user_id = current_user_id.get()": the ContextVar in the
\* context a tool call of connection c runs in.  mcp_server.run reads the
\* connection's messages inside handle_sse, so the call runs in the context
\* of that handle_sse (or in a copy of it), which no other connection sets.
ToolContext(c) == conn[c].user

\* add_coding_preference, get_all_coding_preferences and
\* search_coding_preferences: a tool call arrives on the open connection c
\* and sends its request to the memory store.  The tools have no await (the
\* store is called with the blocking httpx functions).
SseToolCall(c) ==
    /\ program = "sse"
    /\ pc[c] = "open"
    /\ \E name \in SseTools, o \in StoreOutcomes :
         served' = [NoServed EXCEPT !.call = c, !.name = name,
                                    !.user = ToolContext(c), !.stores = 1,
                                    !.storeUser = ToolContext(c),
                                    !.text = IF o = "ok" THEN "result"
                                             ELSE "Error"]
    /\ UNCHANGED <<program, cfgUser, dispatch, current_user_id, sessions,
                   session_id, gets, pc, req, task, out, conn>>

(* ------------------------------ the system ----------------------------- *)

Programs == {"network", "stdio", "sse", "main_stdio"}

Init ==
    /\ program \in Programs
    /\ cfgUser = IF program = "stdio" THEN "alice" ELSE Sentinel
    /\ sessions = [u \in {} |-> NoId]
    /\ session_id = NoId
    /\ gets = [u \in Identities |-> 0]
    /\ pc = [c \in Calls |-> "idle"]
    /\ req = [c \in Calls |-> NoReq]
    /\ task = [c \in Calls |-> NoTask]
    /\ out = NoOut
    /\ conn = [c \in Calls |-> NoConn]
    /\ dispatch \in (IF program \in {"stdio", "main_stdio"} THEN Dispatches
                     ELSE {"none"})
    /\ current_user_id = SentinelId
    /\ served = NoServed

Next ==
    \E c \in Calls :
        \/ NetReceive(c)
        \/ NetHandshakeReturn(c)
        \/ NetPostReturn(c)
        \/ StdioReceive(c)
        \/ StdioHandshakeReturn(c)
        \/ StdioPostReturn(c)
        \/ SseOpen(c)
        \/ ServerCallTool(c)

Spec == Init /\ [][Next]_vars

(* ------------------------- progress of the proxy ----------------------- *)

\* The runs of the network proxy checked for progress: those whose tool
\* calls carry no user_id argument (the identity is the header's or the
\* sentinel) and hold their required argument, which keeps the check of the
\* fairness conditions small.
LiveInit == Init /\ program = "network"

LiveRequest(r) == r.argUser = NoValue /\ r.required = "given"

LiveNetReceive(c) ==
    /\ NetReceive(c)
    /\ IF pc'[c] = "done" THEN LiveRequest(out'.req) ELSE LiveRequest(req'[c])

LiveNext ==
    \E c \in Calls :
        \/ LiveNetReceive(c)
        \/ NetHandshakeReturn(c)
        \/ NetPostReturn(c)

\* httpx.AsyncClient(timeout=30.0): an awaited GET or POST ends, with an
\* answer or with an exception, and the event loop resumes the coroutine.
LiveFairness ==
    \A c \in Calls :
        /\ WF_vars(NetHandshakeReturn(c))
        /\ WF_vars(NetPostReturn(c))

LiveSpec == LiveInit /\ [][LiveNext]_vars /\ LiveFairness

(* -------------------- the tool calls of the SSE server ----------------- *)

\* The runs of the SSE server with tool calls on its connections.  The
\* connections are opened with an X-User-ID header or a user_id query
\* parameter that is an identity, or with neither; Spec covers the opening
\* with every candidate.
SseInit == Init /\ program = "sse"

SseOpenPlain(c) ==
    /\ SseOpen(c)
    /\ conn'[c].header \in {Absent, <<"a","l">>}
    /\ conn'[c].query \in {Absent, <<"b","o">>}
    /\ conn'[c].path = Absent

SseNext ==
    \E c \in Calls :
        \/ SseOpenPlain(c)
        \/ SseToolCall(c)

SseSpec == SseInit /\ [][SseNext]_vars

(* ------------------------------- claims -------------------------------- *)

\* The tool calls that were forwarded, each with its request, the identity
\* whose session it used, the outcome of its handshake and the POST it sent:
\* those of the running coroutines and the one returned last.
Forwardings ==
    {[req |-> req[c], user |-> task[c].user, hs |-> task[c].hs,
      posts |-> task[c].posts, post |-> task[c].post] :
        c \in {k \in Calls : task[k].posts > 0}}
    \cup (IF out.posts > 0
          THEN {[req |-> out.req, user |-> out.user, hs |-> out.hs,
                 posts |-> out.posts, post |-> out.post]}
          ELSE {})

\* The identity supplied outside the message r: the X-User-ID header of the
\* request (network) or the configured --user-id (stdio), else the sentinel.
ExternalIdentity(r) ==
    IF program = "stdio" THEN cfgUser
    ELSE IF r.header # NoValue THEN r.header
    ELSE Sentinel

\* The caller put a user_id in the arguments of r that the proxy honours:
\* any value under the key (stdio), a non-empty value (network).
CallerSuppliedUser(r) ==
    IF program = "stdio" THEN r.argUser # NoValue
    ELSE ~Falsy(r.argUser)

\* C1 as stated: every forwarded call carries, as user_id argument, the
\* externally resolved identity, whatever user_id the caller put in the
\* arguments.
C1_Original ==
    \A f \in Forwardings : f.post.argUser = ExternalIdentity(f.req)

\* C1 amended: every forwarded call carries, as user_id argument, the user_id
\* the caller put in the arguments when there is one (non-empty for the
\* network proxy), and the externally resolved identity only otherwise.
C1_ForwardedUser ==
    \A f \in Forwardings :
        f.post.argUser =
            IF CallerSuppliedUser(f.req) THEN f.req.argUser
            ELSE ExternalIdentity(f.req)

\* C1 witness: a call under header "alice" with user_id argument "bob" is
\* in flight to the remote host with user_id "bob".
C1_Witness ==
    \E c \in Calls :
        /\ program = "network"
        /\ pc[c] = "post"
        /\ req[c].header = "alice"
        /\ req[c].argUser = "bob"
        /\ task[c].post.argUser = "bob"

\* C2 (single-flight): at most one handshake, GET <remote>/sse, is ever sent
\* for an identity.
C2_SingleFlight ==
    \A u \in Identities : gets[u] <= 1

\* C3: the response to a tools/call received by the network adapter carries
\* the id of the inbound request, on every path.
C3_ResponseIdMatches ==
    (program = "network" /\ out.req.method = "tools/call") =>
        (out.resp.kind \in {"result", "error"} /\ out.resp.id = out.req.id)

\* The forwarding outcomes that are failures of the transport.
ForwardFailures == {"garbage", "non200", "exception"}

\* The latest response answers a tools/call (of either proxy).
ToolCallReturned ==
    /\ program \in {"network", "stdio"}
    /\ out.req.method = "tools/call"

\* C4 as stated: a tool call never raises, and every failure yields an error
\* envelope with an error code and a message.
C4_Original ==
    ToolCallReturned =>
        /\ out.resp.kind \in {"result", "error", "text"}
        /\ out.fwd \in ForwardFailures =>
              /\ out.resp.kind = "error"
              /\ out.resp.code # 0
              /\ out.resp.text # "none"

\* C4 amended: whatever the handshake and the forwarding did, a tool call
\* ends with a response and never raises; a failed forwarding yields an
\* error envelope with code -32000 and a message in the network proxy, and a
\* text content holding the error message (no envelope, no code) in the
\* stdio proxy.
C4_AlwaysResponds ==
    ToolCallReturned =>
        /\ out.resp.kind \in {"result", "error", "text"}
        /\ out.req.params = "ok" => out.fwd \in ForwardOutcomes
        /\ out.fwd \in ForwardFailures =>
              IF program = "network"
              THEN /\ out.resp.kind = "error"
                   /\ out.resp.code = TransportError
                   /\ out.resp.text \in {"HTTP error", "Request failed"}
              ELSE /\ out.resp.kind = "text"
                   /\ out.resp.code = 0
                   /\ out.resp.text \in {"HTTP error", "Request failed"}

\* C4 witness: a network tool call whose handshake raised and whose POST was
\* answered with an undecodable body has returned an error envelope.
C4_Witness ==
    /\ program = "network"
    /\ out.req.method = "tools/call"
    /\ out.hs = "exception"
    /\ out.fwd = "garbage"
    /\ out.resp.kind = "error"

\* C5: a stored session is marked established exactly when its token was
\* extracted from a successful handshake answer; after any other handshake
\* outcome it holds a synthesized token and is marked not established.
C5_HealthyIffExtracted ==
    \A u \in DOMAIN sessions :
        sessions[u].established <=> sessions[u].session_id.kind = "remote"

\* C6: a call whose handshake failed is forwarded all the same, with the
\* synthesized token, and ends with a response; no call past the negotiation
\* lacks its forwarding request or a token.
C6_UnhealthyStillForwarded ==
    /\ \A c \in Calls :
          /\ pc[c] = "post" => (task[c].posts = 1 /\ task[c].post.token # NoId)
          /\ task[c].hs \in {"non200", "exception"} =>
                /\ pc[c] = "post"
                /\ task[c].post.token.kind = "uuid"
    /\ out.hs \in {"non200", "exception"} =>
          /\ out.posts = 1
          /\ out.post.token.kind = "uuid"
          /\ out.fwd \in ForwardOutcomes
          /\ out.resp.kind \in {"result", "error", "text"}

\* C6 witness: a call whose handshake was answered with a non-200 status was
\* forwarded with a synthesized token and has returned the remote result.
C6_Witness ==
    /\ out.hs = "non200"
    /\ out.posts = 1
    /\ out.post.token.kind = "uuid"
    /\ out.fwd = "ok_result"
    /\ out.resp.kind \in {"result", "text"}

\* C7: a call that starts while a healthy session is stored for its identity
\* sends no handshake, leaves the session table (and self.session_id)
\* unchanged, and is forwarded with the stored token.
C7_HealthyReused ==
    [][\A c \in Calls :
          (pc[c] = "idle" /\ pc'[c] \in {"handshake", "post"}) =>
             /\ (/\ program = "network"
                 /\ task'[c].user \in DOMAIN sessions
                 /\ sessions[task'[c].user].established) =>
                    /\ pc'[c] = "post"
                    /\ gets' = gets
                    /\ sessions' = sessions
                    /\ task'[c].post.token = sessions[task'[c].user].session_id
             /\ (program = "stdio" /\ session_id # NoId) =>
                    /\ pc'[c] = "post"
                    /\ gets' = gets
                    /\ session_id' = session_id
                    /\ task'[c].post.token = session_id
      ]_vars

\* C7 witness: a call that made no handshake is in flight with the token an
\* earlier handshake extracted for its identity.
C7_Witness ==
    \E c \in Calls :
        /\ program = "network"
        /\ pc[c] = "post"
        /\ task[c].hs = "none"
        /\ task[c].post.token.kind = "remote"
        /\ sessions[task[c].user].established

\* C8: once a session is stored for an identity, its token is never
\* replaced.
C8_TokenNeverReplaced ==
    [][/\ \A u \in DOMAIN sessions :
             sessions'[u].session_id = sessions[u].session_id
       /\ session_id # NoId => session_id' = session_id
      ]_vars

\* C9: in the network proxy every forwarded call uses the entry of its own
\* identity: the token it carries came from a handshake made for that
\* identity, so calls of different identities never share a token.
C9_OwnSession ==
    program = "network" =>
        \A f \in Forwardings :
            /\ f.user \in DOMAIN sessions
            /\ f.post.user = f.user
            /\ f.post.token.owner = f.user
            /\ \A g \in Forwardings :
                  g.user # f.user => g.post.token # f.post.token

\* C9 witness: the calls of alice and bob, each after a handshake of its own,
\* are in flight together with different tokens.
C9_Witness ==
    \E c, d \in Calls :
        /\ program = "network"
        /\ pc[c] = "post"
        /\ pc[d] = "post"
        /\ task[c].user = "alice"
        /\ task[d].user = "bob"
        /\ task[c].hs # "none"
        /\ task[d].hs # "none"
        /\ task[c].post.token # task[d].post.token
        /\ DOMAIN sessions = {"alice", "bob"}

\* A candidate is absent or matches the identity pattern.
WellFormedOrAbsent(s) == s = Absent \/ MatchesIdPattern(s)

\* C10: when every candidate of a connection is well-formed (or absent), the
\* identity of the connection is the header's, else the query parameter's,
\* else the path parameter's (else the default).
C10_HeaderQueryPath ==
    \A c \in Calls :
        (/\ program = "sse"
         /\ pc[c] = "open"
         /\ WellFormedOrAbsent(conn[c].header)
         /\ WellFormedOrAbsent(conn[c].query)
         /\ WellFormedOrAbsent(conn[c].path)) =>
            conn[c].user =
                IF conn[c].header # Absent THEN conn[c].header
                ELSE IF conn[c].query # Absent THEN conn[c].query
                ELSE IF conn[c].path # Absent THEN conn[c].path
                ELSE SentinelId

\* C10 witness: one connection with header and query parameter resolved to
\* the header, another without header resolved to the query parameter.
C10_Witness ==
    \E c, d \in Calls :
        /\ program = "sse"
        /\ pc[c] = "open"
        /\ conn[c].header = <<"a", "l">>
        /\ conn[c].query = <<"b", "o">>
        /\ conn[c].user = <<"a", "l">>
        /\ pc[d] = "open"
        /\ conn[d].header = Absent
        /\ conn[d].query = <<"b", "o">>
        /\ conn[d].path = <<"c", "y">>
        /\ conn[d].user = <<"b", "o">>

\* A candidate that was supplied (a header of any content, a non-empty
\* parameter or argument) and does not match the identity pattern.
Malformed(s) == s # Absent /\ s # <<>> /\ ~MatchesIdPattern(s)

\* The candidate that decides the identity of a connection: the header (as
\* read, without the blanks around it) when there is one, else the query
\* parameter when it is not empty, else the path parameter.
DecidingCandidate(k) ==
    IF k.header # Absent
    THEN (IF Strip(k.header) = <<>> THEN <<" ">> ELSE Strip(k.header))
    ELSE IF ~NotUserId(k.query) THEN k.query
    ELSE k.path

\* C11: a malformed candidate, whichever source supplies it, yields the
\* sentinel identity, so the identity in effect always matches the pattern:
\* for the connections of the SSE server and the tool calls of the stdio
\* server.
C11_MalformedYieldsSentinel ==
    /\ \A c \in Calls :
          (program = "sse" /\ pc[c] = "open") =>
              /\ MatchesIdPattern(conn[c].user)
              /\ Malformed(DecidingCandidate(conn[c])) => conn[c].user = SentinelId
    /\ (program = "main_stdio" /\ served.call # 0) =>
          /\ MatchesIdPattern(served.user)
          /\ Malformed(served.argUser) => served.user = SentinelId

\* The X-User-ID header of connection k is there and, as read, does not
\* match the identity pattern.
MalformedHeader(k) == k.header # Absent /\ ~MatchesIdPattern(Strip(k.header))

\* C12 as stated: a malformed header is treated as absent, and the identity
\* of the connection is the well-formed query parameter, else the
\* well-formed path parameter.
C12_Original ==
    \A c \in Calls :
        (program = "sse" /\ pc[c] = "open" /\ MalformedHeader(conn[c])) =>
            /\ MatchesIdPattern(conn[c].query) => conn[c].user = conn[c].query
            /\ (conn[c].query = Absent /\ MatchesIdPattern(conn[c].path)) =>
                  conn[c].user = conn[c].path

\* C12 amended: a malformed X-User-ID header ends the resolution: the
\* connection gets the sentinel identity whatever its query and path
\* parameters are.
C12_MalformedHeaderIsFinal ==
    \A c \in Calls :
        (program = "sse" /\ pc[c] = "open" /\ MalformedHeader(conn[c])) =>
            conn[c].user = SentinelId

\* C12 witness: a connection with a malformed header and a well-formed
\* query parameter is open under the sentinel identity.
C12_Witness ==
    \E c \in Calls :
        /\ program = "sse"
        /\ pc[c] = "open"
        /\ conn[c].header = <<"a", " ", "l">>
        /\ conn[c].query = <<"b", "o">>
        /\ conn[c].user = SentinelId

\* C13 as stated: when the remote host answers the forwarded call with an
\* error envelope, the proxy (network or stdio) returns that envelope as it
\* is, as an error response.
C13_Original ==
    (ToolCallReturned /\ out.fwd = "ok_error") =>
        out.resp = RemoteErrorEnvelope(out.post.msgId)

\* C13 amended: the network proxy returns the error envelope of the remote
\* host as it is; the stdio proxy returns an ordinary text content holding
\* "Remote error: " and the error, neither an envelope nor marked as error.
C13_UpstreamError ==
    (ToolCallReturned /\ out.fwd = "ok_error") =>
        IF program = "network"
        THEN out.resp = RemoteErrorEnvelope(out.post.msgId)
        ELSE /\ out.resp.kind = "text"
             /\ out.resp.text = "Remote error"
             /\ out.resp.code = 0

\* C13 witness: a network tool call that the remote host answered with an
\* error envelope has returned that envelope.
C13_Witness ==
    /\ program = "network"
    /\ out.req.method = "tools/call"
    /\ out.fwd = "ok_error"
    /\ out.resp.kind = "error"
    /\ out.resp.code = -32603

\* C14: when the forwarding of a tool call fails at the transport (an
\* exception, a status other than 200, an undecodable body), the session of
\* the call's identity is still in the table, and marked not established,
\* once the call has returned.
C14_DegradedAfterFailure ==
    [][\A c \in Calls :
          (/\ program = "network"
           /\ pc[c] = "post"
           /\ pc'[c] = "done"
           /\ out'.fwd \in ForwardFailures) =>
              /\ out'.user \in DOMAIN sessions'
              /\ ~sessions'[out'.user].established
      ]_vars

\* C15: undecodable input never propagates an exception in the network
\* proxy: an inbound body that is not JSON, or not a JSON object, and a 200
\* answer of the remote host that is not JSON, each yield an error envelope
\* with code -32000.
C15_DecodeFailsClosed ==
    (program = "network" /\ out.call # 0) =>
        /\ out.resp.kind \in {"result", "error"}
        /\ (out.req.body # "object" \/ out.fwd = "garbage") =>
              /\ out.resp.kind = "error"
              /\ out.resp.code = TransportError
              /\ out.resp.text # "none"

\* C15 witness: a request whose body is not JSON has been answered with the
\* error envelope of code -32000, without a forwarding.
C15_Witness ==
    /\ program = "network"
    /\ out.call # 0
    /\ out.req.body = "garbage"
    /\ out.posts = 0
    /\ out.resp.kind = "error"
    /\ out.resp.code = TransportError

\* The methods the network endpoint knows.
KnownMethods == {"initialize", "tools/list", "tools/call"}

\* C16: the network endpoint answers a request whose method is none of
\* initialize, tools/list and tools/call (a missing method included) with
\* an error envelope of code -32601 that echoes the request id, and answers
\* with that code in no other case; failures of the transport and of the
\* handling are answered with code -32000.
C16_MethodNotFound ==
    (program = "network" /\ out.call # 0) =>
        /\ (out.req.body = "object" /\ out.req.method \notin KnownMethods) =>
              /\ out.resp.kind = "error"
              /\ out.resp.code = MethodNotFound
              /\ out.resp.id = out.req.id
              /\ out.posts = 0
        /\ out.resp.code = MethodNotFound =>
              (out.req.body = "object" /\ out.req.method \notin KnownMethods)
        /\ (\/ out.fwd \in ForwardFailures
            \/ out.req.body # "object"
            \/ (out.req.method = "tools/call" /\ out.req.params = "null")) =>
              /\ out.resp.kind = "error"
              /\ out.resp.code = TransportError

\* C16 witness: a request without a method has been answered with code
\* -32601 and its own id.
C16_Witness ==
    /\ program = "network"
    /\ out.call # 0
    /\ out.req.body = "object"
    /\ out.req.method = NoValue
    /\ out.resp.code = MethodNotFound
    /\ out.resp.id = ReqId(out.call)

\* The methods answered from static data.
StaticMethods == {"initialize", "tools/list"}

\* C17: the network endpoint answers initialize and tools/list from static
\* data in the step that receives them: no handshake and no forwarding
\* request is sent and the session table is left as it is; a request that
\* goes on to a handshake or a forwarding is a tools/call.
C17_StaticMethodsLocal ==
    [][\A c \in Calls :
          (program = "network" /\ pc[c] = "idle" /\ pc'[c] # "idle") =>
              /\ pc'[c] # "done" => req'[c].method = "tools/call"
              /\ (pc'[c] = "done" /\ out'.req.method \in StaticMethods) =>
                    /\ out'.call = c
                    /\ out'.posts = 0
                    /\ out'.hs = "none"
                    /\ out'.resp = ResultEnvelope(out'.req.id)
                    /\ gets' = gets
                    /\ sessions' = sessions
                    /\ task' = task
      ]_vars

\* C17 witness: a tools/list request has been answered with a result while
\* a session is stored, without a forwarding request.
C17_Witness ==
    /\ program = "network"
    /\ out.req.method = "tools/list"
    /\ out.resp.kind = "result"
    /\ out.posts = 0
    /\ DOMAIN sessions # {}

\* C18: no retry: a tool call sends at most one forwarding request, POST
\* <remote>/messages/, whatever the outcome of that request; a call that is
\* waiting for its answer, or has returned after a forwarding, has sent
\* exactly one.
C18_NoRetry ==
    /\ \A c \in Calls :
          /\ task[c].posts <= 1
          /\ pc[c] = "post" => task[c].posts = 1
    /\ out.posts <= 1
    /\ out.fwd # "none" => out.posts = 1

\* C18 witness: a tool call whose forwarding request was answered with a
\* status other than 200 has returned its error after one request.
C18_Witness ==
    /\ program = "network"
    /\ out.req.method = "tools/call"
    /\ out.fwd = "non200"
    /\ out.posts = 1
    /\ out.resp.code = TransportError

\* C19 as stated: a tool call whose handshake or whose forwarding request
\* timed out has failed with a transport-error envelope of code -32000.
C19_Original ==
    (/\ program = "network"
     /\ out.req.method = "tools/call"
     /\ (out.hs = "exception" \/ out.fwd = "exception")) =>
        /\ out.resp.kind = "error"
        /\ out.resp.code = TransportError

\* C19 amended: every tool call of the network proxy that waits for a
\* handshake or a forwarding answer eventually returns a response, and a
\* call whose forwarding request timed out returns the error envelope of
\* code -32000; a handshake that timed out does not fail the call, which is
\* forwarded with a synthesized token and returns what the forwarding
\* yields.
C19_EventuallyResponds ==
    /\ [](program = "network" =>
            /\ out.fwd = "exception" =>
                  (out.resp.kind = "error" /\ out.resp.code = TransportError)
            /\ out.hs = "exception" =>
                  (out.posts = 1 /\ out.post.token.kind = "uuid"))
    /\ \A c \in Calls :
          (pc[c] \in {"handshake", "post"}) ~>
              (/\ pc[c] = "done"
               /\ out.call = c
               /\ out.resp.kind \in {"result", "error"})

\* C19 witness: a tool call whose handshake and whose forwarding request
\* both timed out has returned the error envelope of code -32000.
C19_Witness ==
    /\ program = "network"
    /\ out.req.method = "tools/call"
    /\ out.hs = "exception"
    /\ out.fwd = "exception"
    /\ out.resp.code = TransportError

\* The latest tool call of the stdio server lacked the argument its tool
\* requires, or gave it empty.
ServedWithoutRequired ==
    /\ program = "main_stdio"
    /\ served.call # 0
    /\ RequiredArgument(served.name) # NoValue
    /\ served.required \in {"absent", "empty"}

\* C20 as stated: a tools/call without the argument its tool requires is
\* answered at once with an error, and no request is sent for it to the
\* memory store (stdio server) or to the remote host (network proxy).
C20_Original ==
    /\ ServedWithoutRequired =>
          (served.stores = 0 /\ served.text = "parameter is required")
    /\ program = "network" =>
          /\ \A c \in Calls :
                req[c].required = "absent" => pc[c] \notin {"handshake", "post"}
          /\ out.req.required = "absent" => out.posts = 0

\* C20 amended: the stdio server answers a tool call without its required
\* argument (or with an empty one) at once with the text "Error: ...
\* parameter is required" and sends no request to the memory store, while a
\* call with the argument sends one; the network proxy does not look at the
\* arguments of the tool and forwards such a call as it forwards any other.
C20_MissingArgument ==
    /\ (program = "main_stdio" /\ served.call # 0) =>
          IF served.name = "no_such_tool"
          THEN served.stores = 0
          ELSE IF ServedWithoutRequired
          THEN served.stores = 0 /\ served.text = "parameter is required"
          ELSE served.stores = 1 /\ served.text \in {"result", "Error in"}
    /\ (/\ program = "network"
        /\ out.req.method = "tools/call"
        /\ out.req.params = "ok"
        /\ out.req.required = "absent") =>
          (out.posts = 1 /\ out.fwd \in ForwardOutcomes)

\* C20 witness: the stdio server has answered an add_coding_preference call
\* with an empty text with the error text, without a request to the store.
C20_Witness ==
    /\ program = "main_stdio"
    /\ served.name = "add_coding_preference"
    /\ served.required = "empty"
    /\ served.stores = 0
    /\ served.text = "parameter is required"

\* C21: every forwarded tool call names, in its X-User-ID header, the
\* identity whose handshake negotiated the session token it carries.
C21_HeaderMatchesToken ==
    \A f \in Forwardings : f.post.user = f.post.token.owner

\* C22: user isolation in the SSE server: the request a tool call sends to
\* the memory store carries the user_id resolved when the call's own
\* connection was opened, whatever other connections are open and in
\* whatever order connections were opened and tools called.
C22_ConnectionIsolation ==
    (program = "sse" /\ served.call # 0) =>
        /\ pc[served.call] = "open"
        /\ served.stores = 1
        /\ served.storeUser = conn[served.call].user
        /\ \A d \in Calls :
              (pc[d] = "open" /\ conn[d].user # conn[served.call].user) =>
                  served.storeUser # conn[d].user

\* C22 witness: with connections open under two identities, a tool call of
\* the later-numbered one has sent its request under its own identity.
C22_Witness ==
    \E c, d \in Calls :
        /\ program = "sse"
        /\ c < d
        /\ pc[c] = "open"
        /\ pc[d] = "open"
        /\ conn[c].user = <<"a", "l">>
        /\ conn[d].user = <<"b", "o">>
        /\ served.call = d
        /\ served.storeUser = <<"b", "o">>

\* C23: on the stdio connection the responses are written in the order in
\* which their requests arrived: when the response to a request is written,
\* the response to every request that arrived before it has been written.
C23_ResponsesInArrivalOrder ==
    [][\A c \in Calls :
          (program = "stdio" /\ pc[c] = "post" /\ pc'[c] = "done") =>
              \A d \in Calls : d < c => pc[d] = "done"
      ]_vars

C25_NoHandshakeAfterFailure ==
    [][\A c \in Calls :
          (pc[c] = "idle" /\ pc'[c] \in {"handshake", "post"}) =>
             /\ (/\ program = "network"
                 /\ task'[c].user \in DOMAIN sessions
                 /\ sessions[task'[c].user].session_id.kind = "uuid") =>
                    /\ pc'[c] = "post"
                    /\ gets' = gets
                    /\ sessions' = sessions
                    /\ task'[c].post.token = sessions[task'[c].user].session_id
             /\ (program = "stdio" /\ session_id.kind = "uuid") =>
                    /\ pc'[c] = "post"
                    /\ gets' = gets
                    /\ session_id' = session_id
                    /\ task'[c].post.token = session_id
      ]_vars

\* C25 witness: after a handshake for its identity raised, a call that made
\* no handshake is in flight with the synthesized token of the session,
\* which is stored as not established.
C25_Witness ==
    \E c \in Calls :
        /\ program = "network"
        /\ pc[c] = "post"
        /\ task[c].hs = "none"
        /\ task[c].post.token.kind = "uuid"
        /\ ~sessions[task[c].user].established
        /\ gets[task[c].user] = 1

\* A tools/call for an identity other than a arrives at coroutine d and goes
\* on to its handshake or to its forwarding.
OtherIdentityProceeds(d, a) ==
    /\ NetReceive(d)
    /\ pc'[d] \in {"handshake", "post"}
    /\ task'[d].user # a

\* C26: a handshake pending for one identity blocks no other identity: while
\* a coroutine waits for its handshake, a tool call for another identity can
\* be taken up to its own handshake or forwarding, a handshake answer for
\* another coroutine can be handled, and a forwarding answer can be handled.
C26_HandshakeBlocksNoOther ==
    program = "network" =>
        \A c, d \in Calls :
            (pc[c] = "handshake" /\ d # c) =>
                /\ pc[d] = "idle" => ENABLED OtherIdentityProceeds(d, task[c].user)
                /\ pc[d] = "handshake" => ENABLED NetHandshakeReturn(d)
                /\ pc[d] = "post" => ENABLED NetPostReturn(d)

\* C26 witness: while the handshake for alice is pending, a call for the
\* sentinel identity, which found no session, has had its handshake
\* answered and is forwarded.
C26_Witness ==
    \E c, d \in Calls :
        /\ program = "network"
        /\ pc[c] = "handshake"
        /\ task[c].user = "alice"
        /\ pc[d] = "post"
        /\ task[d].user = Sentinel
        /\ task[d].hs = "token"
        /\ "alice" \notin DOMAIN sessions

\* The session coroutine c uses in the state s of the session store: the
\* entry of the table under the key of its identity (network proxy) or the
\* session_id of the process (stdio proxy).
SessionReady(prog, tab, sid, user_id) ==
    IF prog = "network"
    THEN SessionKey(user_id) \in DOMAIN tab
    ELSE sid # NoId

SessionToken(prog, tab, sid, user_id) ==
    IF prog = "network" THEN tab[SessionKey(user_id)].session_id ELSE sid

\* C27: each tool call of a proxy passes through its stages in order. A
\* call is forwarded straight away only when a session for its identity is
\* there, otherwise only after its handshake; the request sent carries the
\* token of that session, obtained for the call's identity; a call that has
\* been forwarded ends with one response, and a call that has ended does
\* nothing more.
StagesInOrderStep ==
    (program \in {"network", "stdio"}) =>
        /\ \A c \in Calls :
            /\ pc[c] = "idle" => pc'[c] \in {"idle", "handshake", "post", "done"}
            /\ pc[c] = "handshake" => pc'[c] \in {"handshake", "post"}
            /\ pc[c] = "post" => pc'[c] \in {"post", "done"}
            /\ pc[c] = "done" => pc'[c] = "done"
            /\ (pc[c] = "idle" /\ pc'[c] = "handshake") =>
                  /\ ~SessionReady(program, sessions, session_id, task'[c].user)
                  /\ task'[c].posts = 0
            /\ (pc[c] = "idle" /\ pc'[c] = "post") =>
                  SessionReady(program, sessions, session_id, task'[c].user)
            /\ (pc[c] # "post" /\ pc'[c] = "post") =>
                  /\ SessionReady(program, sessions', session_id', task'[c].user)
                  /\ task'[c].posts = 1
                  /\ task'[c].post.token =
                        SessionToken(program, sessions', session_id', task'[c].user)
                  /\ task'[c].post.token # NoId
                  /\ task'[c].post.token.owner = task'[c].user
            /\ (pc[c] = "post" /\ pc'[c] = "post") => task'[c] = task[c]
            /\ (pc[c] = "post" /\ pc'[c] = "done") =>
                  /\ out'.call = c
                  /\ out'.posts = 1
                  /\ out'.post = task[c].post
                  /\ out'.resp.kind \in {"result", "error", "text"}
        /\ out' # out => pc[out'.call] # "done" /\ pc'[out'.call] = "done"

\* C27: every step of a proxy takes each tool call through its stages in
\* order (session ready, then forwarded with that session's token, then one
\* response).
C27_StagesInOrder == [][StagesInOrderStep]_vars

\* C27 witness: a call has gone through the handshake and the forwarding
\* and has ended with a result, while a later call for the same identity,
\* which found the session, is forwarded with the token of that session.
C27_Witness ==
    \E c \in Calls :
        /\ program \in {"network", "stdio"}
        /\ out.call # 0 /\ out.call # c
        /\ out.hs = "token"
        /\ out.fwd = "ok_result"
        /\ pc[c] = "post"
        /\ task[c].hs = "none"
        /\ task[c].user = out.user
        /\ task[c].post.token = out.post.token
        /\ task[c].post.token.kind = "remote"

\* C28: in the stdio proxy session_id is a token, never empty, once
\* establish_session has returned, whatever the answer of the handshake
\* was: every request forwarded carries a session_id, the remote host's
\* after an answer with a token, a generated one after an empty token, a
\* status other than 200 or an exception.
C28_SessionIdNeverEmpty ==
    program = "stdio" =>
        /\ Forwardings # {} => session_id # NoId
        /\ \A f \in Forwardings :
            /\ f.post.token # NoId
            /\ f.post.token.kind \in {"remote", "uuid"}
            /\ f.hs = "token" => f.post.token.kind = "remote"
            /\ f.hs \in {"emptytoken", "non200", "exception"} =>
                  f.post.token.kind = "uuid"

\* C28 witness: the handshake was answered with status 200 and an empty
\* token, and the call went out with a generated session_id, which a later
\* call uses too.
C28_Witness ==
    \E c \in Calls :
        /\ program = "stdio"
        /\ out.hs = "emptytoken"
        /\ out.post.token.kind = "uuid"
        /\ out.post.token.site = "L134"
        /\ session_id = out.post.token
        /\ pc[c] = "post"
        /\ task[c].hs = "none"
        /\ task[c].post.token = session_id

\* C29: in the network proxy every forwarded tool call is consistent with
\* itself: the user_id in its arguments, the identity in its X-User-ID
\* header and the key of the session whose token it carries are one
\* identity, the one resolved for the call.
C29_ForwardedCallConsistent ==
    program = "network" =>
        \A f \in Forwardings :
            /\ f.post.argUser = f.post.user
            /\ f.post.user = f.post.token.owner
            /\ f.post.token.owner = f.user
            /\ f.user = NetResolveUser(f.req.argUser, f.req.header)
            /\ f.post.token.kind \in {"remote", "uuid"}

\* C29 witness: a call whose arguments name one identity and whose header
\* names another is forwarded, with arguments, header and token all of the
\* identity in the arguments.
C29_Witness ==
    \E f \in Forwardings :
        /\ program = "network"
        /\ f.req.argUser = "bob"
        /\ f.req.header = "alice"
        /\ f.post.argUser = "bob"
        /\ f.post.user = "bob"
        /\ f.post.token.owner = "bob"
        /\ f.post.token.kind = "remote"

====
